---- MODULE Spec2Model ----
(***************************************************************************)
(* GrambyScript: a boolean-expression language compiled to a blueprint of  *)
(* physical parts.  The model covers the versioning dialect of the parser  *)
(* (src/Python/parser.py: PreCompile and Compile) and the part model       *)
(* (src/parts.py: BaseItem, CompileStack, StackableWireType).              *)
(*                                                                         *)
(* Representation.  Python values that mix strings and lists are tagged:   *)
(*   identifier 'A'          ->  <<"id", "A">>                             *)
(*   ['not', e]              ->  <<"not", e>>                              *)
(*   [l, op, r]              ->  <<"bin", l, op, r>>                       *)
(*   None                    ->  <<"none">>                                *)
(* A dict is a sequence of records with a field name (insertion order is   *)
(* the iteration order, assignment to an existing key keeps its place).    *)
(* A program is the list of token lists _parse_statements returns.         *)
(***************************************************************************)
EXTENDS Integers, Sequences, FiniteSets, TLC

VARIABLES
    code,           \* parsed: the token lists of the source text
    pc,             \* position of the caller: new, pre, precompiled, compile, done, raised, api
    lineNo,         \* index of the next line of the main loop of PreCompile
    variables,      \* Parser._variables
    replacements,   \* Parser._replacements
    temp_counter,   \* Parser._temp_counter
    last,           \* what the last _parse_variable_line call computed
    parts,          \* every BaseItem instance created, by handle
    wires,          \* every StackableWireType instance created, by handle
    stack,          \* CompileStack._items (the record of a part is derived from it)
    local,          \* the locals of Compile: gate_connectors, inputs, outputs, position
    call            \* the last call on a part: operation, arguments, outcome

feVars == <<code, lineNo, variables, replacements, temp_counter, last>>
beVars == <<parts, wires, stack, local, call>>
vars == <<code, pc, lineNo, variables, replacements, temp_counter, last,
          parts, wires, stack, local, call>>

----------------------------------------------------------------------------
(* Bounds of the model *)

MaxLines == 3

\* the most direct calls on parts in one run
MaxCalls == 5

\* the longest list of tokens given to the expression parser on its own
MaxTokens == 5

----------------------------------------------------------------------------
(* Tokens *)

expression_keywords == {"and", "or", "not", "nand", "nor", "xor", "xnor", "=", "(", ")"}

init_variable_name == "_INIT"

\* The tokens of the model that [A-Z0-9_]+ does not match: the keywords, the
\* statement words and one lowercase word.
NonIdentifierTokens == expression_keywords \cup {"input", "output", "foo"}

is_valid_identifier(s) == s \notin NonIdentifierTokens

TmpName(n) == "_TMP" \o ToString(n)

----------------------------------------------------------------------------
(* Expression trees *)

None == <<"none">>
Leaf(n) == <<"id", n>>
Not(e) == <<"not", e>>
Bin(l, op, r) == <<"bin", l, op, r>>

IsLeaf(e) == e[1] = "id"
IsNot(e) == e[1] = "not"
IsBin(e) == e[1] = "bin"

ParseOk(t, rest) == [ok |-> TRUE, tree |-> t, rest |-> rest]
ParseErr == [ok |-> FALSE, tree |-> None, rest |-> <<>>]

RECURSIVE parse_primary(_), and_nand_loop(_, _), parse_and_nand(_),
          or_nor_xor_xnor_loop(_, _), parse_or_nor_xor_xnor(_)

\* 'not' wraps its operand as not(_INIT or operand)
parse_primary(tokens) ==
    IF tokens = <<>> THEN ParseErr
    ELSE LET token == Head(tokens)
             rest == Tail(tokens)
         IN  IF token = "("
             THEN LET r == parse_or_nor_xor_xnor(rest)
                  IN  IF ~r.ok THEN ParseErr
                      ELSE IF r.rest = <<>> \/ Head(r.rest) # ")" THEN ParseErr
                      ELSE ParseOk(r.tree, Tail(r.rest))
             ELSE IF token = "not"
             THEN LET r == parse_primary(rest)
                  IN  IF ~r.ok THEN ParseErr
                      ELSE ParseOk(Not(Bin(Leaf(init_variable_name), "or", r.tree)), r.rest)
             ELSE IF is_valid_identifier(token) THEN ParseOk(Leaf(token), rest)
             ELSE ParseErr

and_nand_loop(left, tokens) ==
    IF tokens # <<>> /\ Head(tokens) \in {"and", "nand"}
    THEN LET r == parse_primary(Tail(tokens))
         IN  IF ~r.ok THEN ParseErr
             ELSE and_nand_loop(Bin(left, Head(tokens), r.tree), r.rest)
    ELSE ParseOk(left, tokens)

parse_and_nand(tokens) ==
    LET l == parse_primary(tokens)
    IN  IF ~l.ok THEN ParseErr ELSE and_nand_loop(l.tree, l.rest)

\* the or level grouped from right to left
or_nor_xor_xnor_right(left, tokens) ==
    IF tokens # <<>> /\ Head(tokens) \in {"or", "nor", "xor", "xnor"}
    THEN LET r == parse_or_nor_xor_xnor(Tail(tokens))
         IN  IF ~r.ok THEN ParseErr
             ELSE ParseOk(Bin(left, Head(tokens), r.tree), r.rest)
    ELSE ParseOk(left, tokens)

or_nor_xor_xnor_loop(left, tokens) ==
    IF tokens # <<>> /\ Head(tokens) \in {"or", "nor", "xor", "xnor"}
    THEN LET r == parse_and_nand(Tail(tokens))
         IN  IF ~r.ok THEN ParseErr
             ELSE or_nor_xor_xnor_loop(Bin(left, Head(tokens), r.tree), r.rest)
    ELSE ParseOk(left, tokens)

parse_or_nor_xor_xnor(tokens) ==
    LET l == parse_and_nand(tokens)
    IN  IF ~l.ok THEN ParseErr ELSE or_nor_xor_xnor_loop(l.tree, l.rest)

\* The tokens the top-level call leaves unread are dropped by the caller.
parse_expression(tokens) == parse_or_nor_xor_xnor(tokens)

RECURSIVE transform_complex_gates(_)
\* the transformation with xor taken for or
transform_xor_as_or(expr_tree) ==
    IF IsLeaf(expr_tree) THEN expr_tree
    ELSE IF IsNot(expr_tree) THEN Not(transform_complex_gates(expr_tree[2]))
    ELSE LET left == transform_complex_gates(expr_tree[2])
             op == expr_tree[3]
             right == transform_complex_gates(expr_tree[4])
         IN  CASE op = "nand" -> Not(Bin(left, "and", right))
               [] op = "nor"  -> Not(Bin(left, "or", right))
               [] op = "xor"  -> Bin(left, "or", right)
               [] op = "xnor" -> Bin(Bin(left, "and", right), "or",
                                     Bin(Not(left), "and", Not(right)))
               [] OTHER -> Bin(left, op, right)

transform_complex_gates(expr_tree) ==
    IF IsLeaf(expr_tree) THEN expr_tree
    ELSE IF IsNot(expr_tree) THEN Not(transform_complex_gates(expr_tree[2]))
    ELSE IF IsBin(expr_tree)
    THEN LET left == transform_complex_gates(expr_tree[2])
             op == expr_tree[3]
             right == transform_complex_gates(expr_tree[4])
         IN  CASE op = "nand" -> Not(Bin(left, "and", right))
               [] op = "nor"  -> Not(Bin(left, "or", right))
               [] op = "xor"  -> Bin(Bin(left, "and", Not(right)), "or",
                                     Bin(Not(left), "and", right))
               [] op = "xnor" -> Bin(Bin(left, "and", right), "or",
                                     Bin(Not(left), "and", Not(right)))
               [] OTHER -> Bin(left, op, right)
    ELSE expr_tree

----------------------------------------------------------------------------
(* Temporaries and the flattener *)

\* The name minted at counter value n; the counter becomes n + 1.
getTemporaryVariableName(n) == TmpName(n)

FlatOk(name, temps, n) == [ok |-> TRUE, final |-> name, temp_vars |-> temps, counter |-> n]
FlatErr(temps, n) == [ok |-> FALSE, final |-> "", temp_vars |-> temps, counter |-> n]

\* flatten(e) with the list temp_vars and the counter threaded through
RECURSIVE flatten(_, _, _)
flatten(e, temps, n) ==
    IF IsLeaf(e) THEN FlatOk(e[2], temps, n)
    ELSE IF IsNot(e)
    THEN LET o == flatten(e[2], temps, n)
         IN  IF ~o.ok THEN o
             ELSE FlatOk(getTemporaryVariableName(o.counter),
                         Append(o.temp_vars,
                                [name |-> getTemporaryVariableName(o.counter),
                                 value |-> Not(Leaf(o.final))]),
                         o.counter + 1)
    ELSE IF IsBin(e) /\ e[3] \in {"and", "or"}
    THEN LET l == flatten(e[2], temps, n)
         IN  IF ~l.ok THEN l
             ELSE LET r == flatten(e[4], l.temp_vars, l.counter)
                  IN  IF ~r.ok THEN r
                      ELSE FlatOk(getTemporaryVariableName(r.counter),
                                  Append(r.temp_vars,
                                         [name |-> getTemporaryVariableName(r.counter),
                                          value |-> Bin(Leaf(l.final), e[3], Leaf(r.final))]),
                                  r.counter + 1)
    ELSE FlatErr(temps, n)

flatten_expr(expr, n) == flatten(expr, <<>>, n)

----------------------------------------------------------------------------
(* Dicts *)

Keys(d) == {d[i].name : i \in DOMAIN d}
IndexOf(d, k) == CHOOSE i \in DOMAIN d : d[i].name = k
Get(d, k) == d[IndexOf(d, k)]
Put(d, e) == IF e.name \in Keys(d) THEN [d EXCEPT ![IndexOf(d, e.name)] = e]
             ELSE Append(d, e)

\* a binding without the key 'wire'
Binding(name, type, value) == [name |-> name, type |-> type, value |-> value, wire |-> 0]

RECURSIVE PutTemps(_, _)
PutTemps(d, temps) ==
    IF temps = <<>> THEN d
    ELSE PutTemps(Put(d, Binding(Head(temps).name, "temp", Head(temps).value)), Tail(temps))

----------------------------------------------------------------------------
(* _parse_variable_line *)

\* the substitution of one right-hand token, under the replacements as they are
\* after the definer's own entry has been written
Substitute(R, item, original_definer, actual_definer) ==
    IF item \in Keys(R) /\ item # original_definer THEN Get(R, item).value
    ELSE IF item \in Keys(R) /\ item = original_definer THEN actual_definer
    ELSE item

NoInfo ==
    [called |-> FALSE, ok |-> FALSE, line |-> <<>>, type |-> "", redefined |-> FALSE,
     original_definer |-> "", actual_definer |-> "", definer |-> "",
     expression |-> <<>>, tree_raw |-> None, tree |-> None, rest |-> <<>>,
     final |-> "", temp_names |-> <<>>, keys_before |-> {}, repl_before |-> <<>>]

\* The result of one call: the three fields of the parser after it, whether it
\* returned (ok) or raised, and what it computed on the way.
parse_variable_line(V, R, n, line0, type) ==
    IF line0 = <<>>
    THEN [variables |-> V, replacements |-> R, temp_counter |-> n,
          info |-> [NoInfo EXCEPT !.called = TRUE, !.type = type]]
    ELSE
    LET original_definer == line0[1]
        line == IF type = "output" /\ Len(line0) = 1
                THEN line0 \o <<"=", line0[1]>> ELSE line0
        actual_definer == IF original_definer \in Keys(R)
                          THEN Get(R, original_definer).value ELSE original_definer
        redefined == original_definer \in Keys(V) \/ original_definer \in Keys(R)
        temp_name == getTemporaryVariableName(n)
        R1 == IF redefined THEN Put(R, [name |-> original_definer, value |-> temp_name])
              ELSE R
        n1 == IF redefined THEN n + 1 ELSE n
        definer == IF redefined THEN temp_name ELSE original_definer
        rhs == SubSeq(line, 3, Len(line))
        known == \A i \in DOMAIN rhs :
                    rhs[i] \in expression_keywords \/ is_valid_identifier(rhs[i])
        expression == [i \in DOMAIN rhs |->
                          Substitute(R1, rhs[i], original_definer, actual_definer)]
        p == parse_expression(expression)
        expr_tree_fundamental == transform_complex_gates(p.tree)
        f == flatten_expr(expr_tree_fundamental, n1)
        base == [NoInfo EXCEPT !.called = TRUE, !.line = line, !.type = type,
                               !.redefined = redefined,
                               !.original_definer = original_definer,
                               !.actual_definer = actual_definer,
                               !.definer = definer,
                               !.keys_before = Keys(V), !.repl_before = R]
        raised(c) == [variables |-> V, replacements |-> R1, temp_counter |-> c,
                      info |-> base]
    IN  IF Len(line) < 2 \/ line[2] # "=" THEN raised(n1)
        ELSE IF ~known THEN raised(n1)
        ELSE IF ~p.ok THEN raised(n1)
        ELSE IF ~f.ok THEN raised(f.counter)
        ELSE [variables |-> Put(PutTemps(V, f.temp_vars),
                                Binding(definer, type, Leaf(f.final))),
              replacements |-> R1,
              temp_counter |-> f.counter,
              info |-> [base EXCEPT !.ok = TRUE, !.expression = expression,
                                    !.tree_raw = p.tree,
                                    !.tree = expr_tree_fundamental,
                                    !.rest = p.rest, !.final = f.final,
                                    !.temp_names = [i \in DOMAIN f.temp_vars |->
                                                       f.temp_vars[i].name]]]

----------------------------------------------------------------------------
(* ConnectionConstants *)

wire_ball_attachment1 == 1
wire_ball_attachment2 == 3
label_cup == 1
connector_bottom_attachment == 5
connector_top_cup == 4
connector_front_cup == 6
connector_back_cup == 3
connector_side_cup1 == 2
connector_side_cup2 == 1
gate_attachment == 4
tri_gate_output == 1
tri_gate_input1 == 2
tri_gate_input2 == 3
two_gate_output == 1
two_gate_input == 2
wire_cup1 == 4
wire_cup2 == 2

\* Parts the parser imports that src/parts.py does not define: the scaffold
\* parts, the button, and the attachment a label needs to be mounted on the bus.
short_stick_cup == 1
short_stick_attachment == 2
gyro_attachment == 1
label_attachment == 2

----------------------------------------------------------------------------
(* Part kinds: the class attributes Attachments, Cups (in dict order), Name *)

Attachments(kind) ==
    CASE kind \in {"Gate-AND", "Gate-OR", "Gate-NOT"} -> <<gate_attachment>>
      [] kind = "Connector" -> <<connector_bottom_attachment>>
      [] kind = "Wire" -> <<wire_ball_attachment1, wire_ball_attachment2>>
      [] kind = "Switch" -> <<wire_ball_attachment2, wire_ball_attachment1>>
      [] kind = "Button" -> <<wire_ball_attachment2, wire_ball_attachment1>>
      [] kind = "Label" -> <<label_attachment>>
      [] kind = "ShortStick" -> <<short_stick_attachment>>
      [] kind = "Gyro" -> <<gyro_attachment>>

Cups(kind) ==
    CASE kind \in {"Gate-AND", "Gate-OR"} ->
             <<tri_gate_output, tri_gate_input1, tri_gate_input2>>
      [] kind = "Gate-NOT" -> <<two_gate_output, two_gate_input>>
      [] kind = "Connector" ->
             <<connector_top_cup, connector_front_cup, connector_back_cup,
               connector_side_cup1, connector_side_cup2>>
      [] kind = "Wire" -> <<wire_cup1, wire_cup2>>
      [] kind = "Switch" -> <<wire_cup2>>
      [] kind = "Button" -> <<wire_cup2>>
      [] kind = "Label" -> <<label_cup>>
      [] kind = "ShortStick" -> <<short_stick_cup>>
      [] kind = "Gyro" -> <<>>

Range(q) == {q[i] : i \in DOMAIN q}

\* Label overrides compile: its record has no positions
IsLabel(kind) == kind = "Label"

----------------------------------------------------------------------------
(* The heap of parts, wrappers and the sink.                               *)
(* A part holds the slots marked used, _id, _compiled and _positions; a    *)
(* position is [attachment, cup, target], the target a part <<"part", h>>  *)
(* or an id <<"int", n>>.  The record a compile appends holds the list     *)
(* _positions itself, so the sink keeps the handle of the part and the     *)
(* record is read through it (a label's record holds an empty list).       *)

World(P, Ws, S) == [parts |-> P, wires |-> Ws, stack |-> S, raised |-> FALSE]
Raise(W) == [W EXCEPT !.raised = TRUE]

\* BaseItem.__init__
NewItem(kind, text) ==
    [kind |-> kind, text |-> text, attachments |-> {}, cups |-> {},
     id |-> -1, compiled |-> FALSE, positions |-> <<>>]

NewPart(W, kind, text) ==
    IF W.raised THEN W ELSE [W EXCEPT !.parts = Append(@, NewItem(kind, text))]

Newest(W) == Len(W.parts)

FreeOf(slots, used) == SelectSeq(slots, LAMBDA k : k \notin used)

getEmptyAttachment(part) ==
    LET free == FreeOf(Attachments(part.kind), part.attachments)
    IN  IF free = <<>> THEN -1 ELSE Head(free)

\* connect without the test of the target cup
connect_any_cup(W, s, t, cup) ==
    IF W.raised THEN W
    ELSE IF cup \notin Range(Cups(W.parts[t].kind)) THEN Raise(W)
    ELSE LET attachment == getEmptyAttachment(W.parts[s])
             element == IF W.parts[t].id # -1 THEN <<"int", W.parts[t].id>>
                        ELSE <<"part", t>>
         IN  IF attachment = -1 THEN Raise(W)
             ELSE [W EXCEPT
                     !.parts = [[@ EXCEPT ![t].cups = @ \cup {cup}]
                                   EXCEPT ![s].attachments = @ \cup {attachment},
                                          ![s].positions =
                                              Append(@, [attachment |-> attachment,
                                                         cup |-> cup,
                                                         target |-> element])]]

\* BaseItem.connect(self = s, element = t, cup)
connect(W, s, t, cup) ==
    IF W.raised THEN W
    ELSE IF cup \notin Range(Cups(W.parts[t].kind)) THEN Raise(W)
    ELSE IF cup \in W.parts[t].cups THEN Raise(W)
    ELSE LET attachment == getEmptyAttachment(W.parts[s])
             element == IF W.parts[t].id # -1 THEN <<"int", W.parts[t].id>>
                        ELSE <<"part", t>>
         IN  IF attachment = -1 THEN Raise(W)
             ELSE [W EXCEPT
                     !.parts = [[@ EXCEPT ![t].cups = @ \cup {cup}]
                                   EXCEPT ![s].attachments = @ \cup {attachment},
                                          ![s].positions =
                                              Append(@, [attachment |-> attachment,
                                                         cup |-> cup,
                                                         target |-> element])]]

\* CompileStack.append: the id is the length of the list after the append
stack_append(S, h) == Append(S, h)

\* the loop of BaseItem.compile over _positions, from position k on: each
\* object whose _id is set is replaced by the id; the first one whose _id is
\* -1 raises, with the earlier ones already replaced
\* the loop of compile leaving every position as it is
resolve_nothing(P, positions, k) == [ok |-> TRUE, positions |-> positions]

RECURSIVE resolve(_, _, _)
resolve(P, positions, k) ==
    IF k > Len(positions) THEN [ok |-> TRUE, positions |-> positions]
    ELSE IF positions[k].target[1] = "int" THEN resolve(P, positions, k + 1)
    ELSE IF P[positions[k].target[2]].id = -1 THEN [ok |-> FALSE, positions |-> positions]
    ELSE resolve(P, [positions EXCEPT ![k].target = <<"int", P[positions[k].target[2]].id>>],
                 k + 1)

\* BaseItem.compile and Label.compile (self = h)
compile(W, h) ==
    IF W.raised THEN W
    ELSE IF IsLabel(W.parts[h].kind)
    THEN [W EXCEPT !.parts[h].compiled = TRUE,
                   !.parts[h].id = Len(W.stack) + 1,
                   !.stack = stack_append(@, h)]
    ELSE LET r == resolve(W.parts, W.parts[h].positions, 1)
         IN  IF ~r.ok
             THEN Raise([W EXCEPT !.parts[h].compiled = TRUE,
                                  !.parts[h].positions = r.positions])
             ELSE [W EXCEPT !.parts[h].compiled = TRUE,
                            !.parts[h].positions = r.positions,
                            !.parts[h].id = Len(W.stack) + 1,
                            !.stack = stack_append(@, h)]

\* the record at place k of the sink
Record(P, S, k) ==
    [name |-> P[S[k]].kind,
     positions |-> IF IsLabel(P[S[k]].kind) THEN <<>> ELSE P[S[k]].positions]

----------------------------------------------------------------------------
(* StackableWireType: item_cls the kind of the units added, base_cls the   *)
(* kind of the first unit                                                  *)

NewWire(W, item_cls, base_cls) ==
    IF W.raised THEN W
    ELSE LET W1 == NewPart(W, base_cls, "")
         IN  [W1 EXCEPT !.wires = Append(@, [item_cls |-> item_cls,
                                             compiled |-> FALSE,
                                             items |-> <<Newest(W1)>>])]

NewestWire(W) == Len(W.wires)

HasFreeAttachment(part) == FreeOf(Attachments(part.kind), part.attachments) # <<>>

\* _getLatestItem that never adds a unit: the last unit as it is
getLatestItem_no_growth(W, w) ==
    [world |-> W, item |-> W.wires[w].items[Len(W.wires[w].items)]]

\* _getLatestItem: the world after the call and the unit returned
getLatestItem(W, w) ==
    LET items == W.wires[w].items
        last_item == items[Len(items)]
        withFree == SelectSeq(items, LAMBDA h : HasFreeAttachment(W.parts[h]))
        free_cups == FreeOf(Cups(W.parts[last_item].kind), W.parts[last_item].cups)
        W1 == NewPart(W, W.wires[w].item_cls, "")
        new_item == Newest(W1)
        W2 == connect(W1, new_item, last_item, free_cups[1])
    IN  IF withFree # <<>> THEN [world |-> W, item |-> Head(withFree)]
        ELSE IF free_cups = <<>> THEN [world |-> Raise(W), item |-> last_item]
        ELSE IF W2.raised THEN [world |-> W2, item |-> new_item]
        ELSE [world |-> [W2 EXCEPT !.wires[w].items = Append(@, new_item)],
              item |-> new_item]

\* StackableWireType.connect(self = w, element = t, cup); w = -1 is None
wire_connect(W, w, t, cup) ==
    IF W.raised THEN W
    ELSE IF w = -1 THEN Raise(W)
    ELSE LET g == getLatestItem(W, w)
         IN  connect(g.world, g.item, t, cup)

RECURSIVE compile_all(_, _)
compile_all(W, hs) ==
    IF hs = <<>> THEN W ELSE compile_all(compile(W, Head(hs)), Tail(hs))

\* compile of the wrapper reaching its first unit only
wire_compile_first(W, w) ==
    IF W.raised THEN W
    ELSE compile([W EXCEPT !.wires[w].compiled = TRUE], W.wires[w].items[1])

\* StackableWireType.compile
wire_compile(W, w) ==
    IF W.raised THEN W
    ELSE compile_all([W EXCEPT !.wires[w].compiled = TRUE], W.wires[w].items)

----------------------------------------------------------------------------
(* Parser.Compile.  The handles of the scaffold parts are counted from the *)
(* number of parts b that exist when Compile starts.                       *)

\* the statements of lines 298-347, in order
ScaffoldOps(b) ==
    LET platform_base_connector == b + 1
        platform_stick1 == b + 2
        platform_stick2 == b + 3
        platform_connector1 == b + 4
        platform_connector2 == b + 5
        platform_stick3 == b + 6
        platform_stick4 == b + 7
        gyro1 == b + 8
        gyro2 == b + 9
        gyro3 == b + 10
        gyro4 == b + 11
        base_connector == b + 12
    IN  << <<"new", "Connector">>, <<"new", "ShortStick">>, <<"new", "ShortStick">>,
           <<"connect", platform_stick1, platform_base_connector, connector_front_cup>>,
           <<"connect", platform_stick2, platform_base_connector, connector_back_cup>>,
           <<"new", "Connector">>, <<"new", "Connector">>,
           <<"connect", platform_connector1, platform_stick1, short_stick_cup>>,
           <<"connect", platform_connector2, platform_stick2, short_stick_cup>>,
           <<"new", "ShortStick">>, <<"new", "ShortStick">>,
           <<"new", "Gyro">>,
           <<"connect", gyro1, platform_base_connector, connector_side_cup1>>,
           <<"new", "Gyro">>,
           <<"connect", gyro2, platform_base_connector, connector_side_cup2>>,
           <<"new", "Gyro">>,
           <<"connect", gyro3, platform_connector1, connector_top_cup>>,
           <<"new", "Gyro">>,
           <<"connect", gyro4, platform_connector2, connector_top_cup>>,
           <<"connect", platform_stick3, platform_connector1, connector_front_cup>>,
           <<"connect", platform_stick4, platform_connector2, connector_front_cup>>,
           <<"compile", platform_base_connector>>,
           <<"compile", platform_stick1>>, <<"compile", platform_stick2>>,
           <<"compile", platform_connector1>>, <<"compile", platform_connector2>>,
           <<"compile", platform_stick3>>, <<"compile", platform_stick4>>,
           <<"compile", gyro1>>, <<"compile", gyro2>>,
           <<"compile", gyro3>>, <<"compile", gyro4>>,
           <<"new", "Connector">>,
           <<"connect", base_connector, platform_stick3, short_stick_cup>>,
           <<"compile", base_connector>> >>

Apply(W, op) ==
    CASE op[1] = "new" -> NewPart(W, op[2], "")
      [] op[1] = "connect" -> connect(W, op[2], op[3], op[4])
      [] op[1] = "compile" -> compile(W, op[2])

RECURSIVE Run(_, _)
Run(W, ops) == IF ops = <<>> THEN W ELSE Run(Apply(W, Head(ops)), Tail(ops))

\* _check_dict_matches(states, value): the entry of states for the operator
\* of the value, None for a value that is a name
GateOf(value) ==
    IF IsNot(value) THEN [arity |-> 2, kind |-> "Gate-NOT"]
    ELSE IF IsBin(value) /\ value[3] = "and" THEN [arity |-> 3, kind |-> "Gate-AND"]
    ELSE IF IsBin(value) /\ value[3] = "or" THEN [arity |-> 3, kind |-> "Gate-OR"]
    ELSE [arity |-> 0, kind |-> ""]

\* variables.get(name, {}).get('wire'): -1 is None
WireOf(V, name) ==
    IF name \notin Keys(V) THEN -1
    ELSE IF Get(V, name).wire = 0 THEN -1
    ELSE Get(V, name).wire

\* lines 376-381 and 427-432: the label of an output binding
TapOutput(W, L, variable_name, output_wire) ==
    LET W1 == NewPart(W, "Label", variable_name)
        label == Newest(W1)
        W2 == wire_connect(W1, output_wire, label, label_cup)
    IN  [world |-> W2,
         locals |-> IF W2.raised THEN L ELSE [L EXCEPT !.outputs = Append(@, label)]]

\* lines 356-367: an input binding
CompileInputBody(W, L, data) ==
    LET W1 == NewPart(W, "Label", data.name)
        label == Newest(W1)
        W2 == IF data.name = init_variable_name THEN NewWire(W1, "Wire", "Button")
              ELSE NewWire(W1, "Wire", "Switch")
        wire == NewestWire(W2)
        W3 == wire_connect(W2, wire, label, label_cup)
    IN  [world |-> W3,
         wire |-> IF W3.raised THEN data.wire ELSE wire,
         locals |-> IF W3.raised THEN L ELSE [L EXCEPT !.inputs = Append(@, label)]]

\* lines 373-383: a binding whose value is a name
CompileAliasBody(W, L, V, data) ==
    LET wire == WireOf(V, data.value[2])
        t == TapOutput(W, L, data.name, wire)
    IN  IF data.type = "output"
        THEN [world |-> t.world, wire |-> wire, locals |-> t.locals]
        ELSE [world |-> W, wire |-> wire, locals |-> L]

\* lines 385-407: the gate, its inputs and the wire at its output
GateInputs(W, V, data) ==
    LET gate == GateOf(data.value)
        W1 == NewPart(W, gate.kind, "")
        gate_instance == Newest(W1)
        W2 == wire_connect(W1, WireOf(V, data.value[2][2]), gate_instance, two_gate_input)
        W3 == wire_connect(wire_connect(W1, WireOf(V, data.value[2][2]), gate_instance,
                                        tri_gate_input1),
                           WireOf(V, data.value[4][2]), gate_instance, tri_gate_input2)
        W4 == NewWire(IF gate.arity = 2 THEN W2 ELSE W3, "Wire", "Wire")
    IN  [world |-> wire_connect(W4, NewestWire(W4), gate_instance,
                                IF gate.arity = 2 THEN two_gate_output ELSE tri_gate_output),
         gate_instance |-> gate_instance,
         output_wire |-> NewestWire(W4)]

\* the free cups of a connector, the top cup among them
SideCupsAndTop(part) == FreeOf(Cups("Connector"), part.cups)

\* the free cups of a connector other than its top cup; remove() raises when
\* the top cup is not free
SideCups(part) ==
    SelectSeq(FreeOf(Cups("Connector"), part.cups), LAMBDA k : k # connector_top_cup)

\* lines 409-421: the frontier of the gate column, a new connector when the
\* frontier has no free cup besides the top one
GrowColumn(W, L) ==
    LET frontier == L.gate_connectors[Len(L.gate_connectors)]
        W1 == NewPart(W, "Connector", "")
        W2 == compile(connect(W1, Newest(W1), frontier, connector_top_cup), Newest(W1))
    IN  IF W.raised THEN [world |-> W, locals |-> L, last_connector |-> frontier]
        ELSE IF connector_top_cup \in W.parts[frontier].cups
        THEN [world |-> Raise(W), locals |-> L, last_connector |-> frontier]
        ELSE IF SideCups(W.parts[frontier]) # <<>>
        THEN [world |-> W, locals |-> L, last_connector |-> frontier]
        ELSE [world |-> W2,
              locals |-> IF W2.raised THEN L
                         ELSE [L EXCEPT !.gate_connectors = Append(@, Newest(W1))],
              last_connector |-> Newest(W1)]

\* lines 423-424: the gate goes on the first free side cup and is compiled
MountGate(W, gate_instance, last_connector) ==
    IF W.raised THEN W
    ELSE compile(connect(W, gate_instance, last_connector,
                         Head(SideCups(W.parts[last_connector]))),
                 gate_instance)

\* lines 425-432
GateOutput(W, L, data, output_wire) ==
    IF W.raised THEN [world |-> W, wire |-> data.wire, locals |-> L]
    ELSE IF data.type = "output"
    THEN [world |-> TapOutput(W, L, data.name, output_wire).world,
          wire |-> output_wire,
          locals |-> TapOutput(W, L, data.name, output_wire).locals]
    ELSE [world |-> W, wire |-> output_wire, locals |-> L]

GateOnColumn(column, data, gate_instance, output_wire) ==
    GateOutput(MountGate(column.world, gate_instance, column.last_connector),
               column.locals, data, output_wire)

GateAfterInputs(g, L, data) ==
    GateOnColumn(GrowColumn(g.world, L), data, g.gate_instance, g.output_wire)

\* lines 385-432: a binding whose value is an operation
CompileGateBody(W, L, V, data) == GateAfterInputs(GateInputs(W, V, data), L, data)

\* lines 442-446: the bus column, k connectors still to add
RECURSIVE BuildBus(_, _, _)
BuildBus(W, connectors, k) ==
    IF k = 0 \/ W.raised THEN [world |-> W, connectors |-> connectors]
    ELSE LET W1 == NewPart(W, "Connector", "")
             connector == Newest(W1)
         IN  BuildBus(connect(W1, connector, connectors[Len(connectors)], connector_top_cup),
                      Append(connectors, connector), k - 1)

\* lines 448-452: label i (from 0) goes on connector 2 i
RECURSIVE MountLabels(_, _, _, _, _)
MountLabels(W, labels, connectors, i, cup) ==
    IF i > Len(labels) THEN W
    ELSE MountLabels(connect(W, labels[i], connectors[2 * (i - 1) + 1], cup),
                     labels, connectors, i + 1, cup)

\* lines 464-466: every wire not compiled yet; a binding whose 'wire' is None
\* raises
RECURSIVE Sweep(_, _, _)
Sweep(W, V, i) ==
    IF i > Len(V) \/ W.raised THEN W
    ELSE IF V[i].wire = 0 THEN Sweep(W, V, i + 1)
    ELSE IF V[i].wire = -1 THEN Raise(W)
    ELSE IF W.wires[V[i].wire].compiled THEN Sweep(W, V, i + 1)
    ELSE Sweep(wire_compile(W, V[i].wire), V, i + 1)

Max(a, b) == IF a >= b THEN a ELSE b

\* lines 434-466
CompileFinishBody(W, L, V) ==
    LET W1 == NewPart(W, "Connector", "")
        last_connector == Newest(W1)
        W2 == compile(connect(W1, last_connector,
                              L.gate_connectors[Len(L.gate_connectors)], connector_top_cup),
                      last_connector)
        W3 == NewPart(W2, "Connector", "")
        W4 == connect(W3, Newest(W3), L.platform_stick4, short_stick_cup)
        height == Max(Len(L.inputs), Len(L.outputs)) * 2
        bus == BuildBus(W4, <<Newest(W3)>>, height)
        W5 == MountLabels(bus.world, L.inputs, bus.connectors, 1, connector_front_cup)
        W6 == MountLabels(W5, L.outputs, bus.connectors, 1, connector_back_cup)
        W7 == compile_all(compile_all(compile_all(W6, bus.connectors), L.inputs), L.outputs)
    IN  Sweep(W7, V, 1)

----------------------------------------------------------------------------
(* The programs of the model *)

Lines ==
    { <<"input", "A">>,
      <<"input", "B">>,
      <<"input", "_TMP0">>,
      <<"A", "=", "A", "and", "B">>,
      <<"X", "=", "not", "A">>,
      <<"X", "=", "A", "nand", "B">>,
      <<"X", "=", "A", "xor", "B">>,
      <<"X", "=", "A", "B">>,
      <<"X", "=", "(", "A">>,
      <<"X", "A">>,
      <<"foo", "=", "A">>,
      <<"output", "A">>,
      <<"output", "_TMP0">>,
      <<"output", "Y", "=", "A", "or", "X">> }

Programs == UNION {[1..k -> Lines] : k \in 1..MaxLines}

----------------------------------------------------------------------------
(* State after construction: Parser() and CompileStack() *)

NoLocal == [gate_connectors |-> <<>>, inputs |-> <<>>, outputs |-> <<>>, position |-> 0,
            platform_stick4 |-> 0, first |-> 0]
NoCall == [op |-> "", raised |-> FALSE, source |-> 0, wire |-> 0, target |-> 0, cup |-> 0,
           n |-> 0]

Init ==
    /\ code \in Programs
    /\ pc = "new"
    /\ lineNo = 0
    /\ variables = <<>>
    /\ replacements = <<>>
    /\ temp_counter = 0
    /\ last = NoInfo
    /\ parts = <<>>
    /\ wires = <<>>
    /\ stack = <<>>
    /\ local = NoLocal
    /\ call = NoCall

----------------------------------------------------------------------------
(* PreCompile *)

\* the first loop of PreCompile: a line that is no input or output statement
\* has '=' as its second token
FirstLoopOk(parsed) ==
    \A i \in DOMAIN parsed :
        parsed[i][1] \in {"input", "output"}
            \/ (Len(parsed[i]) >= 2 /\ parsed[i][2] = "=")

\* PreCompile up to its main loop: the _INIT binding, then the first loop
PreCompileEnter ==
    /\ pc = "new"
    /\ variables' = Put(variables, Binding(init_variable_name, "input", None))
    /\ IF FirstLoopOk(code) THEN pc' = "pre" /\ lineNo' = 1
       ELSE pc' = "raised" /\ lineNo' = lineNo
    /\ UNCHANGED <<code, replacements, temp_counter, last>>
    /\ UNCHANGED beVars

\* main loop, a line 'input ...'
PreCompileInput ==
    /\ pc = "pre" /\ lineNo \in DOMAIN code
    /\ code[lineNo][1] = "input"
    /\ LET line == code[lineNo]
       IN  IF Len(line) # 2 \/ ~is_valid_identifier(line[2])
           THEN pc' = "raised" /\ UNCHANGED <<variables, lineNo>>
           ELSE /\ variables' = Put(variables, Binding(line[2], "input", None))
                /\ lineNo' = lineNo + 1
                /\ pc' = pc
    /\ UNCHANGED <<code, replacements, temp_counter, last>>
    /\ UNCHANGED beVars

ParseLine(line, type) ==
    LET r == parse_variable_line(variables, replacements, temp_counter, line, type)
    IN  /\ variables' = r.variables
        /\ replacements' = r.replacements
        /\ temp_counter' = r.temp_counter
        /\ last' = r.info
        /\ IF r.info.ok THEN pc' = pc /\ lineNo' = lineNo + 1
           ELSE pc' = "raised" /\ lineNo' = lineNo
        /\ UNCHANGED code
        /\ UNCHANGED beVars

\* main loop, a line 'output ...': the word is popped, the rest is a definition
PreCompileOutput ==
    /\ pc = "pre" /\ lineNo \in DOMAIN code
    /\ code[lineNo][1] = "output"
    /\ ParseLine(Tail(code[lineNo]), "output")

\* main loop, a line 'NAME = ...'
PreCompileVariable ==
    /\ pc = "pre" /\ lineNo \in DOMAIN code
    /\ code[lineNo][1] \notin {"input", "output"}
    /\ is_valid_identifier(code[lineNo][1])
    /\ ParseLine(code[lineNo], "variable")

\* main loop, a line that starts with anything else
PreCompileUnknown ==
    /\ pc = "pre" /\ lineNo \in DOMAIN code
    /\ code[lineNo][1] \notin {"input", "output"}
    /\ ~is_valid_identifier(code[lineNo][1])
    /\ pc' = "raised"
    /\ UNCHANGED feVars
    /\ UNCHANGED beVars

PreCompileReturn ==
    /\ pc = "pre" /\ lineNo = Len(code) + 1
    /\ pc' = "precompiled"
    /\ UNCHANGED feVars
    /\ UNCHANGED beVars

----------------------------------------------------------------------------
(* Compile, on a fresh CompileStack *)

Here == World(parts, wires, stack)

Leave(W) ==
    /\ parts' = W.parts
    /\ wires' = W.wires
    /\ stack' = W.stack

\* lines 296-350: the scaffold
CompileScaffold ==
    /\ pc = "precompiled"
    /\ LET b == Len(parts)
           W == Run(Here, ScaffoldOps(b))
       IN  /\ Leave(W)
           /\ pc' = IF W.raised THEN "raised" ELSE "compile"
           /\ local' = [gate_connectors |-> <<b + 12>>, inputs |-> <<>>, outputs |-> <<>>,
                        position |-> 1, platform_stick4 |-> b + 7, first |-> b + 1]
    /\ UNCHANGED <<call>>
    /\ UNCHANGED feVars

\* one turn of the loop over the bindings, with the body r of its branch
CompileTurn(r) ==
    /\ Leave(r.world)
    /\ variables' = [variables EXCEPT ![local.position].wire = r.wire]
    /\ local' = IF r.world.raised THEN r.locals
                ELSE [r.locals EXCEPT !.position = @ + 1]
    /\ pc' = IF r.world.raised THEN "raised" ELSE pc
    /\ UNCHANGED <<code, lineNo, replacements, temp_counter, last, call>>

AtBinding == pc = "compile" /\ local.position \in DOMAIN variables

CompileInput ==
    /\ AtBinding
    /\ variables[local.position].type = "input"
    /\ CompileTurn(CompileInputBody(Here, local, variables[local.position]))

CompileAlias ==
    /\ AtBinding
    /\ variables[local.position].type # "input"
    /\ GateOf(variables[local.position].value).arity = 0
    /\ CompileTurn(CompileAliasBody(Here, local, variables, variables[local.position]))

CompileGate ==
    /\ AtBinding
    /\ variables[local.position].type # "input"
    /\ GateOf(variables[local.position].value).arity # 0
    /\ CompileTurn(CompileGateBody(Here, local, variables, variables[local.position]))

\* lines 434-466: the column's cap, the bus, the labels, the remaining wires
CompileFinish ==
    /\ pc = "compile" /\ local.position = Len(variables) + 1
    /\ LET W == CompileFinishBody(Here, local, variables)
       IN  /\ Leave(W)
           /\ pc' = IF W.raised THEN "raised" ELSE "done"
    /\ UNCHANGED <<local, call>>
    /\ UNCHANGED feVars

----------------------------------------------------------------------------
(* The part model used directly: connect and compile called in any order   *)
(* on a few parts, a logical switch and a logical wire                     *)

PoolKinds == <<"Connector", "Gate-NOT">>

PoolParts == DOMAIN PoolKinds

PoolWorld ==
    NewWire(NewWire(Run(World(<<>>, <<>>, <<>>),
                        [i \in DOMAIN PoolKinds |-> <<"new", PoolKinds[i]>>]),
                    "Wire", "Switch"),
            "Wire", "Wire")

InitParts ==
    /\ code = <<>>
    /\ pc = "api"
    /\ lineNo = 0
    /\ variables = <<>>
    /\ replacements = <<>>
    /\ temp_counter = 0
    /\ last = NoInfo
    /\ parts = PoolWorld.parts
    /\ wires = PoolWorld.wires
    /\ stack = <<>>
    /\ local = NoLocal
    /\ call = NoCall

\* The cups of a part are alike to connect: a call names the first free cup or
\* the first used cup of its target.
CupChoices(part) ==
    LET free == FreeOf(Cups(part.kind), part.cups)
        used == SelectSeq(Cups(part.kind), LAMBDA k : k \in part.cups)
    IN  (IF free = <<>> THEN {} ELSE {Head(free)})
            \cup (IF used = <<>> THEN {} ELSE {Head(used)})

Called(W, op, source, wire, target, cup) ==
    /\ Leave(W)
    /\ call.n < MaxCalls
    /\ call' = [op |-> op, raised |-> W.raised, source |-> source, wire |-> wire,
                target |-> target, cup |-> cup, n |-> call.n + 1]
    /\ UNCHANGED <<pc, local>>
    /\ UNCHANGED feVars

\* part.connect(element, cup)
PartConnect ==
    /\ pc = "api"
    /\ \E s \in PoolParts, t \in PoolParts :
         \E cup \in CupChoices(parts[t]) :
            Called(connect(Here, s, t, cup), "connect", s, 0, t, cup)

\* wire.connect(element, cup) on a logical wire or switch
WireConnect ==
    /\ pc = "api"
    /\ \E w \in DOMAIN wires, t \in PoolParts :
         \E cup \in CupChoices(parts[t]) :
            Called(wire_connect(Here, w, t, cup), "wire_connect", 0, w, t, cup)

\* part.compile(stack)
PartCompile ==
    /\ pc = "api"
    /\ \E h \in PoolParts : Called(compile(Here, h), "compile", h, 0, 0, 0)

\* wire.compile(stack)
WireCompile ==
    /\ pc = "api"
    /\ \E w \in DOMAIN wires :
         Called(wire_compile(Here, w), "wire_compile", 0, w, 0, 0)

NextParts ==
    \/ PartConnect
    \/ WireConnect
    \/ PartCompile
    \/ WireCompile

SpecParts == InitParts /\ [][NextParts]_vars

Next ==
    \/ PreCompileEnter
    \/ PreCompileInput
    \/ PreCompileOutput
    \/ PreCompileVariable
    \/ PreCompileUnknown
    \/ PreCompileReturn
    \/ CompileScaffold
    \/ CompileInput
    \/ CompileAlias
    \/ CompileGate
    \/ CompileFinish

Spec == Init /\ [][Next]_vars

----------------------------------------------------------------------------
(* Properties *)

\* the name a right-hand occurrence of name resolves to under replacements R
CurrentVersion(R, name) == IF name \in Keys(R) THEN Get(R, name).value ELSE name

\* the right-hand tokens of the line the last call worked on
LastRhs == SubSeq(last.line, 3, Len(last.line))

Returned == last.called /\ last.ok

\* C1: a redefinition of D is stored under a freshly minted name that is not D
\* and was no name of the table, D's current version becomes that name, every
\* occurrence of D on its right-hand side reads the name D had before the
\* statement, and in every statement an occurrence of another redefined name
\* reads that name's current version.
C1_VersioningSelfReference ==
    Returned =>
        /\ last.redefined =>
              /\ last.definer # last.original_definer
              /\ last.definer \notin last.keys_before
              /\ CurrentVersion(replacements, last.original_definer) = last.definer
              /\ last.definer \in Keys(variables)
        /\ \A i \in DOMAIN LastRhs :
              /\ LastRhs[i] = last.original_definer =>
                    last.expression[i] = CurrentVersion(last.repl_before, LastRhs[i])
              /\ (LastRhs[i] # last.original_definer /\ LastRhs[i] \in Keys(last.repl_before)) =>
                    last.expression[i] = CurrentVersion(last.repl_before, LastRhs[i])

\* C2: no versioned rename and no temporary is stored under a name that was
\* already a key of the binding table, and the names minted by one statement
\* are pairwise different.
C2_FreshNames ==
    Returned =>
        LET minted == (IF last.redefined THEN <<last.definer>> ELSE <<>>) \o last.temp_names
        IN  /\ \A i \in DOMAIN minted : minted[i] \notin last.keys_before
            /\ \A i, j \in DOMAIN minted : i # j => minted[i] # minted[j]

\* every 'not' node of the tree has the shape not(_INIT or X)
RECURSIVE EveryNotGuarded(_)
EveryNotGuarded(e) ==
    IF IsLeaf(e) THEN TRUE
    ELSE IF IsNot(e)
    THEN /\ IsBin(e[2])
         /\ e[2][3] = "or"
         /\ e[2][2] = Leaf(init_variable_name)
         /\ EveryNotGuarded(e[2][4])
    ELSE EveryNotGuarded(e[2]) /\ EveryNotGuarded(e[4])

\* C7: in the normalized tree of every statement PreCompile accepts, every
\* 'not' node, written in the source or introduced by expanding nand, nor, xor
\* or xnor, is not(_INIT or X).
C7_EveryNegationGuarded == Returned => EveryNotGuarded(last.tree)

\* the names a binding's value refers to
Operands(value) ==
    IF IsLeaf(value) THEN {value[2]}
    ELSE IF IsNot(value) THEN {value[2][2]}
    ELSE IF IsBin(value) THEN {value[2][2], value[4][2]}
    ELSE {}

\* C8: a statement whose right-hand side names an identifier that no earlier
\* statement declared makes PreCompile raise, and the binding table PreCompile
\* returns refers to declared names only, each declared before its use.
C8_UndeclaredNameRaises ==
    /\ (last.called /\ \E i \in DOMAIN LastRhs :
                           /\ is_valid_identifier(LastRhs[i])
                           /\ LastRhs[i] \notin last.keys_before)
          => ~last.ok
    /\ pc = "precompiled" =>
          \A i \in DOMAIN variables :
              \A name \in Operands(variables[i].value) :
                  \E j \in DOMAIN variables : j # i /\ variables[j].name = name

\* C9: a right-hand side the expression parser does not read to its last token
\* (or cannot read at all) makes the statement fail, and a failed statement
\* adds no binding.
C9_NotASentenceRaises ==
    /\ Returned => last.rest = <<>>
    /\ (last.called /\ ~last.ok) => Keys(variables) = last.keys_before

\* the line the main loop of PreCompile has just accepted
Accepted(line) == pc = "pre" /\ lineNo > 1 /\ code[lineNo - 1] = line

\* C10: a bare 'output NAME' for a declared NAME adds an output binding whose
\* value is NAME's current version, and the name NAME resolves to afterwards
\* is the name it resolved to before.
C10_BareOutputKeepsVersion ==
    \A name \in last.keys_before :
        (Accepted(<<"output", name>>) /\ Returned) =>
            /\ Get(variables, last.definer).type = "output"
            /\ Get(variables, last.definer).value
                   = Leaf(CurrentVersion(last.repl_before, name))
            /\ CurrentVersion(replacements, name) = CurrentVersion(last.repl_before, name)

----------------------------------------------------------------------------
(* Properties of the part model *)

\* the part a recorded connection leads to: the object, or the part whose
\* record has the recorded id
TargetPart(position) ==
    IF position.target[1] = "part" THEN position.target[2]
    ELSE stack[position.target[2]]

Connections == UNION {{<<s, j>> : j \in DOMAIN parts[s].positions} : s \in DOMAIN parts}

Into(t, cup) ==
    {c \in Connections : /\ parts[c[1]].positions[c[2]].cup = cup
                         /\ TargetPart(parts[c[1]].positions[c[2]]) = t}

OutOf(s, attachment) ==
    {j \in DOMAIN parts[s].positions : parts[s].positions[j].attachment = attachment}

\* a cup is marked used exactly when one recorded connection leads into it,
\* an attachment exactly when one recorded connection leaves it; never two
SlotsExclusive ==
    \A h \in DOMAIN parts :
        /\ \A cup \in Range(Cups(parts[h].kind)) :
              Cardinality(Into(h, cup)) = IF cup \in parts[h].cups THEN 1 ELSE 0
        /\ \A a \in Range(Attachments(parts[h].kind)) :
              Cardinality(OutOf(h, a)) = IF a \in parts[h].attachments THEN 1 ELSE 0

\* the step is a direct call of the operation op
Calls(op) == call'.n = call.n + 1 /\ call'.op = op

SlotsStep ==
    /\ \A h \in DOMAIN parts :
          /\ parts[h].cups \subseteq parts'[h].cups
          /\ parts[h].attachments \subseteq parts'[h].attachments
    /\ (Calls("connect") /\ (\/ call'.cup \in parts[call'.target].cups
                             \/ ~HasFreeAttachment(parts[call'.source])))
          => call'.raised
    /\ (Calls("wire_connect") /\ call'.cup \in parts[call'.target].cups)
          => call'.raised

C5_CompileOnce ==
    [][ /\ \A h \in DOMAIN parts : parts[h].id # -1 => parts'[h].id = parts[h].id
        /\ (Calls("compile") /\ parts[call'.source].id # -1)
              => /\ call'.raised
                 /\ stack' = stack ]_vars

----------------------------------------------------------------------------
(* Properties of the records Compile leaves in the sink *)

\* C4: when Compile has completed, every connection of the record at place p
\* holds an integer id t, 1 <= t <= p, of a part that was compiled before the
\* part of the record (t is that part's place in the sink, before p).
C4_NoForwardReference ==
    pc = "done" =>
        \A p \in DOMAIN stack :
            \A j \in DOMAIN Record(parts, stack, p).positions :
                LET target == Record(parts, stack, p).positions[j].target
                IN  /\ target[1] = "int"
                    /\ 1 <= target[2] /\ target[2] <= p
                    /\ target[2] < p
                    /\ parts[stack[target[2]]].id = target[2]

\* Compile has completed with a gate and a wire of more than one unit
C4_Witness ==
    /\ pc = "done"
    /\ \E p \in DOMAIN stack : parts[stack[p]].kind = "Gate-OR"
    /\ \E w \in DOMAIN wires : Len(wires[w].items) >= 2

\* C6: when Compile has completed, every part it created has exactly one
\* record, and the id of a part is the place of its record: 1..n in order.
C6_OneRecordPerPart ==
    pc = "done" =>
        /\ Len(stack) = Len(parts)
        /\ \A h \in DOMAIN parts : Cardinality({k \in DOMAIN stack : stack[k] = h}) = 1
        /\ \A k \in DOMAIN stack : parts[stack[k]].id = k

\* Compile has completed with a wire of two units, a wire that two bindings
\* share and a gate output that nothing consumes
C6_Witness ==
    /\ pc = "done"
    /\ \E w \in DOMAIN wires : Len(wires[w].items) >= 2
    /\ \E i, j \in DOMAIN variables : i # j /\ variables[i].wire = variables[j].wire
    /\ \E w \in DOMAIN wires :
          /\ Len(wires[w].items) = 1
          /\ parts[wires[w].items[1]].kind = "Wire"
          /\ Len(parts[wires[w].items[1]].positions) = 1

----------------------------------------------------------------------------
(* Properties of failure and of the binding table *)

\* the call that raised is PreCompile: Compile has not set its locals
RaisedInPreCompile == pc = "raised" /\ local = NoLocal

RaisedInCompile == pc = "raised" /\ local # NoLocal

\* C11: when PreCompile raises, the binding table holds no binding of a
\* statement of the source (the _INIT binding it writes first is not counted)
\* and the version map is empty, as before the call; when Compile raises, the
\* sink holds no record and no part is marked compiled.
C11_FailureAtomic ==
    /\ RaisedInPreCompile =>
          /\ Keys(variables) \subseteq {init_variable_name}
          /\ replacements = <<>>
    /\ RaisedInCompile =>
          /\ stack = <<>>
          /\ \A h \in DOMAIN parts : ~parts[h].compiled

\* the last statement has returned and its right-hand side is one 'and' or
\* 'or' of two declared names
SingleOperation ==
    /\ Returned
    /\ Len(LastRhs) = 3
    /\ LastRhs[2] \in {"and", "or"}
    /\ LastRhs[1] \in last.keys_before
    /\ LastRhs[3] \in last.keys_before

\* C13: a statement whose right-hand side is one binary operation on two
\* names binds its name to that operation itself, [L, op, R] with the current
\* versions of the names, and mints no temporary.
C13_SingleOperationBoundDirectly ==
    SingleOperation =>
        /\ Get(variables, last.definer).type = last.type
        /\ Get(variables, last.definer).value
               = Bin(Leaf(last.expression[1]), LastRhs[2], Leaf(last.expression[3]))
        /\ last.temp_names = <<>>

\* C16: in the table a completed PreCompile returns, every name a binding's
\* value refers to is the key of a binding placed strictly earlier; and when
\* Compile reaches a binding, each of its operand bindings carries a wire.
C16_TableOrderDependencySafe ==
    /\ pc = "precompiled" =>
          \A i \in DOMAIN variables :
              \A name \in Operands(variables[i].value) :
                  \E j \in 1..(i - 1) : variables[j].name = name
    /\ (AtBinding /\ variables[local.position].type # "input") =>
          \A name \in Operands(variables[local.position].value) :
              WireOf(variables, name) > 0

----------------------------------------------------------------------------
(* Properties of the gate column *)

IsGate(kind) == kind \in {"Gate-AND", "Gate-OR", "Gate-NOT"}

\* the gates that have been mounted: a gate's one attachment holds its mount
MountedGates == {h \in DOMAIN parts : IsGate(parts[h].kind) /\ parts[h].positions # <<>>}

GatesOn(c) == {h \in MountedGates : TargetPart(parts[h].positions[1]) = c}

CeilDiv(a, b) == (a + b - 1) \div b

\* every mounted gate sits on a cup of its own, not the top cup, of a
\* connector of the column; a connector hosts at most 4 gates; each connector
\* after the first is linked to the top cup of the one before it, which is
\* full; the column has max(1, ceil(g / 4)) connectors for g gates
GateColumn ==
    LET column == local.gate_connectors
    IN  /\ \A h \in MountedGates :
              /\ \E i \in DOMAIN column : TargetPart(parts[h].positions[1]) = column[i]
              /\ parts[h].positions[1].cup # connector_top_cup
              /\ parts[h].positions[1].cup
                     \in parts[TargetPart(parts[h].positions[1])].cups
              /\ \A g \in MountedGates :
                    (/\ g # h
                     /\ TargetPart(parts[g].positions[1]) = TargetPart(parts[h].positions[1]))
                        => parts[g].positions[1].cup # parts[h].positions[1].cup
        /\ \A i \in DOMAIN column : Cardinality(GatesOn(column[i])) <= 4
        /\ \A i \in DOMAIN column :
              i > 1 => /\ Len(parts[column[i]].positions) = 1
                       /\ TargetPart(parts[column[i]].positions[1]) = column[i - 1]
                       /\ parts[column[i]].positions[1].cup = connector_top_cup
                       /\ Cardinality(GatesOn(column[i - 1])) = 4
        /\ Len(column) = Max(1, CeilDiv(Cardinality(MountedGates), 4))

\* a turn of Compile on an operation binding whose input wires exist mounts
\* the gate, on a cup that was free, and does not raise
MountStep ==
    (/\ AtBinding
     /\ variables[local.position].type # "input"
     /\ GateOf(variables[local.position].value).arity # 0
     /\ ~GateInputs(Here, variables, variables[local.position]).world.raised)
        => LET g == GateInputs(Here, variables, variables[local.position]).gate_instance
           IN  /\ pc' # "raised"
               /\ MountedGates' = MountedGates \cup {g}
               /\ g \notin MountedGates
               /\ LET c == IF parts'[g].positions[1].target[1] = "part"
                           THEN parts'[g].positions[1].target[2]
                           ELSE stack'[parts'[g].positions[1].target[2]]
                  IN  c \in DOMAIN parts => parts'[g].positions[1].cup \notin parts[c].cups

\* C18: during Compile every gate is mounted on a free cup, other than the
\* top cup, of the frontier connector; a connector is added to the column,
\* linked to the frontier's top cup, exactly when the frontier has no other
\* free cup; each connector hosts at most 4 gates, g gates make
\* max(1, ceil(g / 4)) connectors, and no mount raises.
C18_GateColumn ==
    /\ [](local # NoLocal => GateColumn)
    /\ [][MountStep]_vars

\* Compile has completed with a column of two connectors, the first one full
C18_Witness ==
    /\ pc = "done"
    /\ Len(local.gate_connectors) = 2
    /\ Cardinality(GatesOn(local.gate_connectors[1])) = 4
    /\ Cardinality(MountedGates) = 5

----------------------------------------------------------------------------
(* Properties of the logical wires *)

\* C19: a connect that raises, on a part or through a logical wire or switch,
\* leaves every part as it was (slots and recorded connections of the source
\* and of the target) and leaves every chain as it was: no unit is created,
\* linked or appended.
C19_FailedConnectChangesNothing ==
    [][ ((Calls("connect") \/ Calls("wire_connect")) /\ call'.raised)
            => (parts' = parts /\ wires' = wires) ]_vars

RECURSIVE PositionsOf(_, _)
PositionsOf(P, items) ==
    IF items = <<>> THEN 0 ELSE Len(P[Head(items)].positions) + PositionsOf(P, Tail(items))

\* the connections recorded through the wrapper: the positions of its units
\* that are not the links of the chain
Recorded(P, Ws, w) == PositionsOf(P, Ws[w].items) - (Len(Ws[w].items) - 1)

\* k connections, max(1, k - 1) units
Regular(P, Ws, w) == Len(Ws[w].items) = Max(1, Recorded(P, Ws, w) - 1)

\* a connect through wrapper w on a free target cup does not raise; it is
\* recorded on the first unit with a free attachment, or on a new last unit
\* linked to a free cup of the unit that was last
GrowthStep(w) ==
    LET items == wires[w].items
        withFree == SelectSeq(items, LAMBDA h : HasFreeAttachment(parts[h]))
        latest == IF withFree # <<>> THEN Head(withFree) ELSE Len(parts) + 1
        t == call'.target
        link == parts'[latest].positions[1]
        recorded == parts'[latest].positions[Len(parts'[latest].positions)]
    IN  (/\ Calls("wire_connect")
         /\ call'.wire = w
         /\ call'.cup \notin parts[t].cups
         /\ Regular(parts, wires, w))
            => /\ ~call'.raised
               /\ Recorded(parts', wires', w) = Recorded(parts, wires, w) + 1
               /\ Regular(parts', wires', w)
               /\ wires'[w].items = IF withFree # <<>> THEN items ELSE Append(items, latest)
               /\ recorded.cup = call'.cup
               /\ recorded.target = IF parts[t].id # -1 THEN <<"int", parts[t].id>>
                                    ELSE <<"part", t>>
               /\ withFree = <<>> =>
                     /\ Len(parts') = Len(parts) + 1
                     /\ Len(parts'[latest].positions) = 2
                     /\ link.cup \notin parts[items[Len(items)]].cups
                     /\ link.cup \in parts'[items[Len(items)]].cups
                     /\ link.target = IF parts[items[Len(items)]].id # -1
                                      THEN <<"int", parts[items[Len(items)]].id>>
                                      ELSE <<"part", items[Len(items)]>>
               /\ \A h \in DOMAIN parts :
                     h # latest => parts'[h].positions = parts[h].positions

\* every step that is no connect through w leaves the chain of w and the
\* number of its connections as they are
OtherStep(w) ==
    ~(Calls("wire_connect") /\ call'.wire = w)
        => /\ wires'[w].items = wires[w].items
           /\ Recorded(parts', wires', w) = Recorded(parts, wires, w)

\* the targets of the connections of the units of w, the links of the chain
\* aside, have been compiled
TargetsCompiled(w) ==
    \A i \in DOMAIN wires[w].items :
        \A j \in DOMAIN parts[wires[w].items[i]].positions :
            LET target == parts[wires[w].items[i]].positions[j].target
            IN  \/ target[1] = "int"
                \/ parts[target[2]].id # -1
                \/ \E m \in 1..(i - 1) : wires[w].items[m] = target[2]

\* compile of wrapper w appends the records of its units in chain order and
\* leaves no connection of a unit unresolved
ChainCompileStep(w) ==
    (Calls("wire_compile") /\ call'.wire = w /\ TargetsCompiled(w))
        => /\ ~call'.raised
           /\ stack' = stack \o wires[w].items
           /\ \A i \in DOMAIN wires[w].items :
                 /\ parts'[wires[w].items[i]].id = Len(stack) + i
                 /\ \A j \in DOMAIN parts'[wires[w].items[i]].positions :
                       /\ parts'[wires[w].items[i]].positions[j].target[1] = "int"
                       /\ parts'[wires[w].items[i]].positions[j].target[2] < Len(stack) + i

\* C17: connect calls on one logical wire or switch with free target cups
\* never raise; each is recorded on the first unit in chain order with a free
\* attachment, a new unit being created, linked to a free cup of the last
\* unit and appended exactly when no unit has one; after k such connections
\* the chain has max(1, k - 1) units; and compiling the wrapper compiles the
\* units in chain order without an unresolved reference.
C17_ChainGrowth ==
    [][ \A w \in DOMAIN wires :
            GrowthStep(w) /\ OtherStep(w) /\ ChainCompileStep(w) ]_vars

\* a logical wire or switch that took three connections, grew to two units
\* and was compiled
C17_Witness ==
    /\ call.op = "wire_compile" /\ ~call.raised
    /\ Len(wires[call.wire].items) = 2
    /\ Recorded(parts, wires, call.wire) = 3
    /\ \A i \in DOMAIN wires[call.wire].items : parts[wires[call.wire].items[i]].id # -1

----------------------------------------------------------------------------
(* The expression functions on their own: _parse_expression,               *)
(* _transform_complex_gates and _flatten_expr applied in turn, as          *)
(* _parse_variable_line applies them, to one list of tokens                *)

ExprIdentifiers == {"A", "B", "_TMP0"}

AndLevel == {"and", "nand"}

OrLevel == {"or", "nor", "xor", "xnor"}

ExprTokens == ExprIdentifiers \cup AndLevel \cup OrLevel \cup {"not", "(", ")"}

\* every list of k tokens
TokenLists(k) == [1..k -> ExprTokens]

\* a parenthesised operation as the left or right operand of an operation, or
\* as the operand of 'not'
Parenthesised ==
    UNION {{ <<"(", a, op1, b, ")", op2, c>>,
             <<c, op2, "(", a, op1, b, ")">>,
             <<"not", "(", a, op1, b, ")">> } :
           a \in ExprIdentifiers, b \in ExprIdentifiers, c \in ExprIdentifiers,
           op1 \in AndLevel \cup OrLevel, op2 \in AndLevel \cup OrLevel}

InitExpr ==
    /\ \/ \E k \in 1..MaxTokens : \E tokens \in TokenLists(k) : code = <<tokens>>
       \/ \E tokens \in Parenthesised : code = <<tokens>>
    /\ pc = "tokens"
    /\ lineNo = 0
    /\ variables = <<>>
    /\ replacements = <<>>
    /\ temp_counter = 0
    /\ last = NoInfo
    /\ parts = <<>>
    /\ wires = <<>>
    /\ stack = <<>>
    /\ local = NoLocal
    /\ call = NoCall

\* expr_tree_raw = self._parse_expression(expression.copy())
ExprParse ==
    /\ pc = "tokens"
    /\ LET p == parse_expression(code[1])
       IN  /\ last' = [NoInfo EXCEPT !.called = TRUE, !.ok = p.ok, !.expression = code[1],
                                     !.tree_raw = p.tree, !.rest = p.rest]
           /\ pc' = IF p.ok THEN "parsed" ELSE "raised"
    /\ UNCHANGED <<code, lineNo, variables, replacements, temp_counter>>
    /\ UNCHANGED beVars

\* expr_tree_fundamental = self._transform_complex_gates(expr_tree_raw)
ExprTransform ==
    /\ pc = "parsed"
    /\ last' = [last EXCEPT !.tree = transform_complex_gates(last.tree_raw)]
    /\ pc' = "normal"
    /\ UNCHANGED <<code, lineNo, variables, replacements, temp_counter>>
    /\ UNCHANGED beVars

\* final_var, temp_vars = self._flatten_expr(expr_tree_fundamental), and the
\* temporaries stored in the table
ExprFlatten ==
    /\ pc = "normal"
    /\ LET f == flatten_expr(last.tree, temp_counter)
       IN  /\ last' = [last EXCEPT !.ok = f.ok, !.final = f.final,
                                   !.temp_names = [i \in DOMAIN f.temp_vars |->
                                                      f.temp_vars[i].name]]
           /\ variables' = PutTemps(variables, f.temp_vars)
           /\ temp_counter' = f.counter
           /\ pc' = IF f.ok THEN "flat" ELSE "raised"
    /\ UNCHANGED <<code, lineNo, replacements>>
    /\ UNCHANGED beVars

NextExpr ==
    \/ ExprParse
    \/ ExprTransform
    \/ ExprFlatten

SpecExpr == InitExpr /\ [][NextExpr]_vars

----------------------------------------------------------------------------
(* Properties of the expression functions *)

\* the list of tokens has been read to its end as one expression
Sentence == last.called /\ pc \in {"parsed", "normal", "flat"} /\ last.rest = <<>>

\* the places of tokens that lie outside every pair of parentheses
Outside(tokens) ==
    {i \in DOMAIN tokens :
        Cardinality({j \in 1..(i - 1) : tokens[j] = "("})
            = Cardinality({j \in 1..(i - 1) : tokens[j] = ")"})}

Greatest(S) == CHOOSE i \in S : \A j \in S : j <= i

\* The grouping of a sentence by precedence: it splits at the last operator
\* of the or level that is outside the parentheses; without one, at the last
\* operator of the and level; without one, 'not' takes the rest, a primary,
\* and a parenthesised expression is grouped by what it encloses.  A negation
\* is written not(_INIT or X).
RECURSIVE Grouping(_)
Grouping(tokens) ==
    LET ors == {i \in Outside(tokens) : tokens[i] \in OrLevel}
        ands == {i \in Outside(tokens) : tokens[i] \in AndLevel}
        split(i) == Bin(Grouping(SubSeq(tokens, 1, i - 1)), tokens[i],
                        Grouping(SubSeq(tokens, i + 1, Len(tokens))))
    IN  IF ors # {} THEN split(Greatest(ors))
        ELSE IF ands # {} THEN split(Greatest(ands))
        ELSE IF Head(tokens) = "not"
        THEN Not(Bin(Leaf(init_variable_name), "or", Grouping(Tail(tokens))))
        ELSE IF Head(tokens) = "(" THEN Grouping(SubSeq(tokens, 2, Len(tokens) - 1))
        ELSE Leaf(Head(tokens))

\* C14: the parse tree of every sentence groups and/nand tighter than
\* or/nor/xor/xnor, operators of one level from left to right, a
\* parenthesised expression as one primary, and 'not' with the primary that
\* follows it.
C14_PrecedenceAndAssociativity == Sentence => last.tree_raw = Grouping(code[1])

\* a parenthesised or-level operation has been parsed as the operand of an
\* and-level operation
C14_Witness ==
    /\ Sentence
    /\ IsBin(last.tree_raw) /\ last.tree_raw[3] \in AndLevel
    /\ IsBin(last.tree_raw[2]) /\ last.tree_raw[2][3] \in OrLevel

\* the tree uses the operators and, or, not only
RECURSIVE Fundamental(_)
Fundamental(e) ==
    IF IsLeaf(e) THEN TRUE
    ELSE IF IsNot(e) THEN Fundamental(e[2])
    ELSE e[3] \in {"and", "or"} /\ Fundamental(e[2]) /\ Fundamental(e[4])

\* the value of a tree when the identifiers of T are true and the others,
\* _INIT among them, false; nand, nor, xor and xnor by their truth tables
RECURSIVE Value(_, _)
Value(e, T) ==
    IF IsLeaf(e) THEN e[2] \in T
    ELSE IF IsNot(e) THEN ~Value(e[2], T)
    ELSE CASE e[3] = "and"  -> Value(e[2], T) /\ Value(e[4], T)
           [] e[3] = "or"   -> Value(e[2], T) \/ Value(e[4], T)
           [] e[3] = "nand" -> ~(Value(e[2], T) /\ Value(e[4], T))
           [] e[3] = "nor"  -> ~(Value(e[2], T) \/ Value(e[4], T))
           [] e[3] = "xor"  -> Value(e[2], T) # Value(e[4], T)
           [] e[3] = "xnor" -> Value(e[2], T) = Value(e[4], T)

\* C15: the normalized tree uses and, or, not only, and under every
\* assignment of the identifiers (with _INIT false) it has the value of the
\* tree it was made from, where A nand B is not(A and B), A nor B is
\* not(A or B), A xor B is exclusive or and A xnor B is equivalence.
C15_ComplexGatesTruthTables ==
    pc \in {"normal", "flat"} =>
        /\ Fundamental(last.tree)
        /\ \A T \in SUBSET ExprIdentifiers :
              Value(last.tree, T) = Value(last.tree_raw, T)

\* an xor or xnor one of whose operands is itself a nand or nor
C15_Witness ==
    /\ pc = "normal"
    /\ IsBin(last.tree_raw) /\ last.tree_raw[3] \in {"xor", "xnor"}
    /\ IsBin(last.tree_raw[2]) /\ last.tree_raw[2][3] \in {"nand", "nor"}

RECURSIVE Identifiers(_)
Identifiers(e) ==
    IF IsLeaf(e) THEN {e[2]}
    ELSE IF IsNot(e) THEN Identifiers(e[2])
    ELSE Identifiers(e[2]) \cup Identifiers(e[4])

RECURSIVE OperatorNodes(_)
OperatorNodes(e) ==
    IF IsLeaf(e) THEN 0
    ELSE IF IsNot(e) THEN 1 + OperatorNodes(e[2])
    ELSE 1 + OperatorNodes(e[2]) + OperatorNodes(e[4])

\* one operation on names: not X, X and Y, or X or Y
OneOperation(value) ==
    \/ IsNot(value) /\ IsLeaf(value[2])
    \/ IsBin(value) /\ value[3] \in {"and", "or"} /\ IsLeaf(value[2]) /\ IsLeaf(value[4])

\* the tree a name stands for in table V: a temporary is replaced by its
\* operation and the operands of it in turn, at most fuel deep
RECURSIVE Substituted(_, _, _)
Substituted(V, name, fuel) ==
    IF fuel = 0 \/ name \notin Keys(V) THEN Leaf(name)
    ELSE IF IsNot(Get(V, name).value)
    THEN Not(Substituted(V, Get(V, name).value[2][2], fuel - 1))
    ELSE Bin(Substituted(V, Get(V, name).value[2][2], fuel - 1),
             Get(V, name).value[3],
             Substituted(V, Get(V, name).value[4][2], fuel - 1))

\* C12: the flattener returns a final name and a list of temporaries; each
\* temporary is bound to one operation whose operands are identifiers of the
\* tree or temporaries minted earlier in the list; there are as many
\* temporaries as operator nodes; and substituting every temporary by its
\* value, from the final name on, gives the normalized tree back.
C12_FlattenerCorrect ==
    pc = "flat" =>
        /\ \A i \in DOMAIN last.temp_names :
              /\ OneOperation(Get(variables, last.temp_names[i]).value)
              /\ Operands(Get(variables, last.temp_names[i]).value)
                     \subseteq (Identifiers(last.tree)
                                   \cup {last.temp_names[j] : j \in 1..(i - 1)})
        /\ Len(last.temp_names) = OperatorNodes(last.tree)
        /\ Substituted(variables, last.final, Len(last.temp_names)) = last.tree

====
